---- MODULE Spec2Model ----
(* Model of lib/tic_tac_toe/core.py: the TicTacToeGame board and the       *)
(* ComputerPlayer minimax search.                                          *)
EXTENDS Integers, Sequences, FiniteSets, TLC

VARIABLES
    board,   \* TicTacToeGame._board
    start,   \* the board the game was constructed with
    turn,    \* who acts next
    op,      \* the last operation called on the game
    args,    \* the arguments of that call, the game aside
    err,     \* what that call raised, "ok" if nothing
    frames   \* the calls of _mini_max in progress, the outermost first

vars == <<board, start, turn, op, args, err, frames>>

\* ---------------------------------------------------------------- board

PLAYER == "X"
OPPONENT_PLAYER == "O"
None == "None"

WIN_POSITIONS ==
    << <<0, 1, 2>>, <<3, 4, 5>>, <<6, 7, 8>>,
       <<0, 3, 6>>, <<1, 4, 7>>, <<2, 5, 8>>,
       <<0, 4, 8>>, <<2, 4, 6>> >>

Positions == 0..8

\* _board is a list of nine cells: position pos is element pos + 1 of the
\* sequence
Boards == [1..9 -> {PLAYER, OPPONENT_PLAYER, None}]

EmptyBoard == <<None, None, None, None, None, None, None, None, None>>

\* str.upper() on the symbols the model feeds to mark
upper(symbol) ==
    CASE symbol = "x" -> "X"
      [] symbol = "o" -> "O"
      [] symbol = "z" -> "Z"
      [] OTHER -> symbol

\* mark with the position checked before the symbol
mark_pos_first(b, symbol, pos) ==
    LET s == upper(symbol) IN
    IF pos \notin 0..8
    THEN [board |-> b, err |-> "InvalidMove"]
    ELSE IF s \notin {PLAYER, OPPONENT_PLAYER}
    THEN [board |-> b, err |-> "InvalidSymbol"]
    ELSE [board |-> [b EXCEPT ![pos + 1] = s], err |-> "ok"]

\* mark refusing a cell that is taken
mark_rejects_occupied(b, symbol, pos) ==
    LET s == upper(symbol) IN
    IF s \notin {PLAYER, OPPONENT_PLAYER}
    THEN [board |-> b, err |-> "InvalidSymbol"]
    ELSE IF pos \notin 0..8 \/ b[pos + 1] # None
    THEN [board |-> b, err |-> "InvalidMove"]
    ELSE [board |-> [b EXCEPT ![pos + 1] = s], err |-> "ok"]

\* mark(): the board after the call and the exception raised, if any
\* mark checking its arguments and then writing nothing
mark_writes_nothing(b, symbol, pos) ==
    LET s == upper(symbol) IN
    IF s \notin {PLAYER, OPPONENT_PLAYER}
    THEN [board |-> b, err |-> "InvalidSymbol"]
    ELSE IF pos \notin 0..8
    THEN [board |-> b, err |-> "InvalidMove"]
    ELSE [board |-> b, err |-> "ok"]

mark(b, symbol, pos) ==
    LET s == upper(symbol) IN
    IF s \notin {PLAYER, OPPONENT_PLAYER}
    THEN [board |-> b, err |-> "InvalidSymbol"]
    ELSE IF pos \notin 0..8
    THEN [board |-> b, err |-> "InvalidMove"]
    ELSE [board |-> [b EXCEPT ![pos + 1] = s], err |-> "ok"]

\* undo_mark leaving the cell as it is
undo_mark_keeps(b, pos) == b

\* undo_mark clearing the cell after the one asked for
undo_mark_next_cell(b, pos) == [b EXCEPT ![((pos + 1) % 9) + 1] = None]

undo_mark(b, pos) == [b EXCEPT ![pos + 1] = None]

RECURSIVE available_from(_, _)
available_from(b, pos) ==
    IF pos > 8 THEN <<>>
    ELSE IF b[pos + 1] = None THEN <<pos>> \o available_from(b, pos + 1)
    ELSE available_from(b, pos + 1)

\* the available positions in descending order
RECURSIVE available_down_from(_, _)
available_down_from(b, pos) ==
    IF pos < 0 THEN <<>>
    ELSE IF b[pos + 1] = None THEN <<pos>> \o available_down_from(b, pos - 1)
    ELSE available_down_from(b, pos - 1)

available_positions_descending(b) == available_down_from(b, 8)

available_positions(b) == available_from(b, 0)

\* win_cond looking at the first two cells of the line only
win_cond_two_cells(b, win_perm) ==
    IF Cardinality({b[win_perm[1] + 1], b[win_perm[2] + 1]}) = 1
    THEN b[win_perm[1] + 1]
    ELSE None

win_cond(b, win_perm) ==
    IF Cardinality({b[win_perm[1] + 1], b[win_perm[2] + 1],
                    b[win_perm[3] + 1]}) = 1
    THEN b[win_perm[1] + 1]
    ELSE None

\* the scan of WIN_POSITIONS missing its first entry
RECURSIVE first_winner_skips_first(_, _)
first_winner_skips_first(b, i) ==
    IF i + 1 > Len(WIN_POSITIONS) THEN None
    ELSE LET w == win_cond(b, WIN_POSITIONS[i + 1]) IN
         IF w # None THEN w ELSE first_winner_skips_first(b, i + 1)

\* next(ifilter(None, imap(win_cond, WIN_POSITIONS)), None)
RECURSIVE first_winner(_, _)
first_winner(b, i) ==
    IF i > Len(WIN_POSITIONS) THEN None
    ELSE LET w == win_cond(b, WIN_POSITIONS[i]) IN
         IF w # None THEN w ELSE first_winner(b, i + 1)

game_result(b) ==
    LET winner == first_winner(b, 1) IN
    IF winner # None THEN <<TRUE, winner>>
    ELSE IF \A p \in Positions : b[p + 1] # None THEN <<TRUE, None>>
    ELSE <<FALSE, None>>

GAME_STATUS == [WIN |-> "WIN", DRAW |-> "DRAW", ACTIVE |-> "ACTIVE"]

\* status taking every finished game for a win
status_no_draw(b) ==
    LET r == game_result(b) IN
    IF r[1] THEN GAME_STATUS.WIN ELSE GAME_STATUS.ACTIVE

status(b) ==
    LET r == game_result(b) IN
    IF r[1]
    THEN IF r[2] = None THEN GAME_STATUS.DRAW ELSE GAME_STATUS.WIN
    ELSE GAME_STATUS.ACTIVE

winner(b) ==
    LET r == game_result(b) IN
    IF r[1] /\ r[2] # None THEN r[2] ELSE None

is_over(b) == game_result(b)[1]

\* ------------------------------------------------------- ComputerPlayer

symbol == PLAYER

\* score with the two wins exchanged
score_swapped(b) ==
    LET w == winner(b) IN
    IF w = None THEN 0
    ELSE IF w = symbol THEN -1
    ELSE 1

score(b) ==
    LET w == winner(b) IN
    IF w = None THEN 0
    ELSE IF w = symbol THEN 1
    ELSE -1

next_active_turn(player_symbol) ==
    IF player_symbol = "O" THEN "X" ELSE "O"

\* the comparisons of the two kinds of node exchanged
better_exchanged(active_turn, s, best_score) ==
    IF active_turn = symbol THEN s < best_score ELSE s > best_score

\* the comparison also replacing the best move on an equal score
better_or_equal(active_turn, s, best_score) ==
    IF active_turn = symbol THEN s >= best_score ELSE s <= best_score

\* the comparison that replaces the best move at a node
better(active_turn, s, best_score) ==
    IF active_turn = symbol THEN s > best_score ELSE s < best_score

\* best_score = best_move = None, and the move of a finished game
NoMove == -1

\* The search is a function of (board, active_turn) alone, so its calls
\* are tabulated: call number index(b, active_turn) of the table holds what
\* _mini_max(b, active_turn) returns.
Cells == <<None, PLAYER, OPPONENT_PLAYER>>

Pow3 == <<1, 3, 9, 27, 81, 243, 729, 2187, 6561>>

digit(v) == IF v = None THEN 0 ELSE IF v = PLAYER THEN 1 ELSE 2

RECURSIVE code_from(_, _)
code_from(b, p) ==
    IF p > 8 THEN 0 ELSE digit(b[p + 1]) * Pow3[p + 1] + code_from(b, p + 1)

index(b, active_turn) ==
    1 + 2 * code_from(b, 0) + (IF active_turn = PLAYER THEN 0 ELSE 1)

cell_at(i, p) == Cells[((((i - 1) \div 2) \div Pow3[p + 1]) % 3) + 1]

board_at(i) ==
    << cell_at(i, 0), cell_at(i, 1), cell_at(i, 2),
       cell_at(i, 3), cell_at(i, 4), cell_at(i, 5),
       cell_at(i, 6), cell_at(i, 7), cell_at(i, 8) >>

turn_at(i) == IF (i - 1) % 2 = 0 THEN PLAYER ELSE OPPONENT_PLAYER

empties(b) == Cardinality({p \in Positions : b[p + 1] = None})

RECURSIVE mini_max_loop(_, _, _, _, _)

\* the for loop of _mini_max over the remaining moves; memo answers the
\* recursive calls
mini_max_loop(b, active_turn, moves, best, memo) ==
    IF moves = <<>>
    THEN [score |-> best.score, move |-> best.move, board |-> b,
          fresh |-> best.fresh]
    ELSE LET move == Head(moves)
             sub == memo[index(mark(b, active_turn, move).board,
                               next_active_turn(active_turn))]
             undone == undo_mark(sub.board, move)
             nbest == IF best.move = NoMove
                         \/ better(active_turn, sub.score, best.score)
                      THEN [score |-> sub.score, move |-> move]
                      ELSE [score |-> best.score, move |-> best.move]
             marked == [fresh |-> best.fresh /\ sub.fresh /\ b[move + 1] = None]
         IN mini_max_loop(undone, active_turn, Tail(moves),
                          nbest @@ marked, memo)

\* one call of _mini_max: score, best move, the board as the call leaves
\* it, and whether every mark of the call and of the calls below it was
\* put on a cell that was empty at that moment
mini_max_call(b, active_turn, memo) ==
    IF is_over(b)
    THEN [score |-> score(b), move |-> NoMove, board |-> b, fresh |-> TRUE]
    ELSE mini_max_loop(b, active_turn, available_positions(b),
                       [score |-> 0, move |-> NoMove, fresh |-> TRUE], memo)

NumCalls == 2 * 3 * Pow3[9]

\* the number of empty cells of the board of each call
empties_at == [i \in 1..NumCalls |-> empties(board_at(i))] \o <<>>

\* the calls on boards with k empty cells, from those with fewer; the
\* concatenation makes each pass a finite sequence
RECURSIVE tabulate(_, _)
tabulate(k, memo) ==
    IF k > 9 THEN memo
    ELSE tabulate(k + 1,
             [i \in 1..NumCalls |->
                 IF empties_at[i] < k THEN memo[i]
                 ELSE IF empties_at[i] = k
                 THEN mini_max_call(board_at(i), turn_at(i), memo)
                 ELSE [score |-> 0, move |-> NoMove, board |-> <<>>,
                       fresh |-> TRUE]]
             \o <<>>)

mini_max_table == tabulate(0, <<>>)

mini_max(b, active_turn) == mini_max_table[index(b, active_turn)]

\* do_move searching with the opponent as the active turn
do_move_wrong_turn(b) ==
    IF is_over(b) THEN [board |-> b, err |-> "ok"]
    ELSE IF {b[p + 1] : p \in Positions} = {None}
    THEN mark(b, symbol, 0)
    ELSE LET r == mini_max(b, next_active_turn(symbol))
         IN mark(r.board, symbol, r.move)

\* do_move without the test for a finished game
do_move_searches_finished(b) ==
    IF {b[p + 1] : p \in Positions} = {None}
    THEN mark(b, symbol, 0)
    ELSE LET r == mini_max(b, symbol) IN mark(r.board, symbol, r.move)

\* do_move opening in the centre
do_move_opens_centre(b) ==
    IF is_over(b) THEN [board |-> b, err |-> "ok"]
    ELSE IF {b[p + 1] : p \in Positions} = {None}
    THEN mark(b, symbol, 4)
    ELSE LET r == mini_max(b, symbol) IN mark(r.board, symbol, r.move)

\* do_move: the board after the call and what the call raised
do_move(b) ==
    IF is_over(b) THEN [board |-> b, err |-> "ok"]
    ELSE IF {b[p + 1] : p \in Positions} = {None}
    THEN mark(b, symbol, 0)
    ELSE LET r == mini_max(b, symbol) IN mark(r.board, symbol, r.move)

\* ------------------------------------------------- alternating game play
\* The caller alternates the opponent's mark with the computer's do_move
\* and stops once the game is over.

Init ==
    /\ board = EmptyBoard
    /\ start = board
    /\ turn \in {"computer", "opponent"}
    /\ op = "init"
    /\ args = <<>>
    /\ err = "ok"
    /\ frames = <<>>

OpponentMove(pos) ==
    /\ turn = "opponent"
    /\ ~is_over(board)
    /\ board[pos + 1] = None
    /\ board' = mark(board, OPPONENT_PLAYER, pos).board
    /\ err' = mark(board, OPPONENT_PLAYER, pos).err
    /\ turn' = "computer"
    /\ op' = "mark"
    /\ args' = <<OPPONENT_PLAYER, pos>>
    /\ UNCHANGED <<start, frames>>

ComputerMove ==
    /\ turn = "computer"
    /\ ~is_over(board)
    /\ board' = do_move(board).board
    /\ err' = do_move(board).err
    /\ turn' = "opponent"
    /\ op' = "do_move"
    /\ args' = <<>>
    /\ UNCHANGED <<start, frames>>

Next ==
    \/ \E pos \in Positions : OpponentMove(pos)
    \/ ComputerMove

Spec == Init /\ [][Next]_vars

\* the same play on a game constructed from any board that is not over,
\* the computer moving first
InitFrom ==
    /\ board \in Boards
    /\ ~is_over(board)
    /\ start = board
    /\ turn = "computer"
    /\ op = "init"
    /\ args = <<>>
    /\ err = "ok"
    /\ frames = <<>>

SpecFrom == InitFrom /\ [][Next]_vars

\* --------------------------------------------- alternating plain marks
\* Two callers mark empty cells in turn, X and O alternating; mark itself
\* never looks at the status of the game.

InitMarks ==
    /\ board = EmptyBoard
    /\ start = board
    /\ turn \in {PLAYER, OPPONENT_PLAYER}
    /\ op = "init"
    /\ args = <<>>
    /\ err = "ok"
    /\ frames = <<>>

AlternateMark(pos) ==
    /\ board[pos + 1] = None
    /\ board' = mark(board, turn, pos).board
    /\ err' = mark(board, turn, pos).err
    /\ turn' = next_active_turn(turn)
    /\ op' = "mark"
    /\ args' = <<turn, pos>>
    /\ UNCHANGED <<start, frames>>

NextMarks == \E pos \in Positions : AlternateMark(pos)

SpecMarks == InitMarks /\ [][NextMarks]_vars

\* ------------------------------------------- one call on any board
\* A game is constructed from any nine cells (TicTacToeGame(board=...))
\* and the caller makes one call on it, so that start is the board the
\* call was made on: a call of do_move in SpecMove, a call of mark or of
\* undo_mark in SpecBoard.

MaxPos == 9

SymbolInputs == {"X", "O", "x", "z"}

PosInputs == -1..MaxPos

InitCall ==
    /\ board \in Boards
    /\ start = board
    /\ turn = "caller"
    /\ op = "init"
    /\ args = <<>>
    /\ err = "ok"
    /\ frames = <<>>

Mark(s, pos) ==
    /\ op = "init"
    /\ board' = mark(board, s, pos).board
    /\ err' = mark(board, s, pos).err
    /\ op' = "mark"
    /\ args' = <<s, pos>>
    /\ UNCHANGED <<start, turn, frames>>

UndoMark(pos) ==
    /\ op = "init"
    /\ board' = undo_mark(board, pos)
    /\ err' = "ok"
    /\ op' = "undo_mark"
    /\ args' = <<pos>>
    /\ UNCHANGED <<start, turn, frames>>

DoMove ==
    /\ op = "init"
    /\ board' = do_move(board).board
    /\ err' = do_move(board).err
    /\ op' = "do_move"
    /\ args' = <<>>
    /\ UNCHANGED <<start, turn, frames>>

NextMove == DoMove

SpecMove == InitCall /\ [][NextMove]_vars

NextBoard ==
    \/ \E s \in SymbolInputs, pos \in PosInputs : Mark(s, pos)
    \/ \E pos \in Positions : UndoMark(pos)

SpecBoard == InitCall /\ [][NextBoard]_vars

\* undo_mark(pos) followed at once by mark(s, pos), on any board
MarkAfterUndo(s) ==
    /\ op = "undo_mark"
    /\ board' = mark(board, s, args[1]).board
    /\ err' = mark(board, s, args[1]).err
    /\ op' = "undo_mark,mark"
    /\ args' = <<s, args[1]>>
    /\ UNCHANGED <<start, turn, frames>>

NextUndoMark ==
    \/ \E pos \in Positions : UndoMark(pos)
    \/ \E s \in {PLAYER, OPPONENT_PLAYER} : MarkAfterUndo(s)

SpecUndoMark == InitCall /\ [][NextUndoMark]_vars

\* One call of do_move taken statement by statement: frames holds the calls
\* of _mini_max in progress, board is the one board they all work on.
MaxEmpty == 3
MaxDepth == 11

\* a call of _mini_max as it stands after its first statements: on a
\* finished game it is about to return the score, otherwise it is about to
\* loop over the available positions
entered(b, active_turn) ==
    IF is_over(b)
    THEN [active_turn |-> active_turn, moves |-> <<>>,
          best_score |-> score(b), best_move |-> NoMove]
    ELSE [active_turn |-> active_turn, moves |-> available_positions(b),
          best_score |-> 0, best_move |-> NoMove]

InitSearch ==
    /\ board \in {b \in Boards : empties(b) <= MaxEmpty}
    /\ start = board
    /\ turn = "caller"
    /\ op = "init"
    /\ args = <<>>
    /\ err = "ok"
    /\ frames = <<>>

\* do_move up to its call of _mini_max, or to its end when it makes none
DoMoveEnter ==
    /\ op = "init"
    /\ args' = <<>>
    /\ UNCHANGED <<start, turn>>
    /\ IF is_over(board) \/ {board[p + 1] : p \in Positions} = {None}
       THEN /\ board' = do_move(board).board
            /\ err' = do_move(board).err
            /\ op' = "do_move"
            /\ frames' = <<>>
       ELSE /\ op' = "_mini_max"
            /\ frames' = <<entered(board, symbol)>>
            /\ UNCHANGED <<board, err>>

\* the loop takes its next move: mark it and call _mini_max for the other
\* side
Descend ==
    /\ op = "_mini_max"
    /\ Len(frames) < MaxDepth
    /\ frames[Len(frames)].moves # <<>>
    /\ LET f == frames[Len(frames)]
           marked == mark(board, f.active_turn, Head(f.moves))
       IN /\ board' = marked.board
          /\ err' = marked.err
          /\ frames' = Append(frames,
                 entered(marked.board, next_active_turn(f.active_turn)))
    /\ UNCHANGED <<start, turn, op, args>>

\* a recursive call returns: the caller undoes its mark and compares
Return ==
    /\ op = "_mini_max"
    /\ Len(frames) > 1
    /\ frames[Len(frames)].moves = <<>>
    /\ LET f == frames[Len(frames)]
           c == frames[Len(frames) - 1]
           move == Head(c.moves)
           nc == IF c.best_move = NoMove
                    \/ better(c.active_turn, f.best_score, c.best_score)
                 THEN [c EXCEPT !.best_score = f.best_score,
                                !.best_move = move, !.moves = Tail(c.moves)]
                 ELSE [c EXCEPT !.moves = Tail(c.moves)]
       IN /\ board' = undo_mark(board, move)
          /\ frames' = Append(SubSeq(frames, 1, Len(frames) - 2), nc)
    /\ UNCHANGED <<start, turn, op, args, err>>

\* the outermost call returns and do_move marks the move it gave
DoMoveMark ==
    /\ op = "_mini_max"
    /\ Len(frames) = 1
    /\ frames[1].moves = <<>>
    /\ board' = mark(board, symbol, frames[1].best_move).board
    /\ err' = mark(board, symbol, frames[1].best_move).err
    /\ op' = "do_move"
    /\ frames' = <<>>
    /\ UNCHANGED <<start, turn, args>>

NextSearch == DoMoveEnter \/ Descend \/ Return \/ DoMoveMark

SpecSearch == InitSearch /\ [][NextSearch]_vars

\* the game from the empty board played to its end: while the board is
\* not over the side whose turn it is takes it
SpecPlayed == Init /\ [][Next]_vars /\ WF_vars(Next)

\* ---------------------------------------------------------------- claims

\* symbol s fills every position of some WinLine of b
HasLine(b, s) ==
    \E i \in 1..Len(WIN_POSITIONS) :
        \A j \in 1..3 : b[WIN_POSITIONS[i][j] + 1] = s

Full(b) == \A p \in Positions : b[p + 1] # None

\* C1: in a game from the empty board with strictly alternating turns,
\* either side first, the opponent marking any empty cell with O and the
\* computer moving with do_move, the winner is never O: a finished game is
\* a draw or a win for X.
C1_NeverLoses ==
    /\ winner(board) # OPPONENT_PLAYER
    /\ ~HasLine(board, OPPONENT_PLAYER)
    /\ is_over(board) =>
          \/ status(board) = "DRAW"
          \/ status(board) = "WIN" /\ winner(board) = PLAYER

\* a game the opponent opened and that was played to a full board
C1_Witness ==
    /\ start = EmptyBoard
    /\ Full(board)
    /\ op = "mark"
    /\ status(board) = "DRAW"

\* C2 as stated: from any board that is not over, the computer moving
\* first and turns alternating, the game never ends with winner O.
C2_Original == is_over(board) => winner(board) # OPPONENT_PLAYER

\* C2 amended: the same, from the boards on which the search for the
\* computer's move does not score the position as lost (score 0 or 1).
C2_NeverLosesFromUnlost ==
    mini_max(start, symbol).score >= 0 =>
        /\ winner(board) # OPPONENT_PLAYER
        /\ ~HasLine(board, OPPONENT_PLAYER)

\* a game drawn by the opponent's last mark, from a board with marks on it
\* that the search scores as a draw
C2_Witness ==
    /\ mini_max(start, symbol).score = 0
    /\ start # EmptyBoard
    /\ op = "mark"
    /\ status(board) = "DRAW"

\* exactly one cell of a that was empty holds X in b, the others are equal
OneNewMark(a, b) ==
    \E p \in Positions :
        /\ a[p + 1] = None
        /\ b[p + 1] = PLAYER
        /\ \A q \in Positions \ {p} : b[q + 1] = a[q + 1]

\* C3: on every board that is not over, do_move fills exactly one cell
\* that was empty with X and leaves the other eight cells as they were.
C3_DoMoveMarksOne ==
    (op = "do_move" /\ ~is_over(start)) =>
        (OneNewMark(start, board) /\ err = "ok")

\* do_move has run on a board with several marks of both symbols
C3_Witness ==
    /\ op = "do_move"
    /\ ~is_over(start)
    /\ start = <<"X", "O", None, None, "O", None, None, None, "X">>

\* what the claims expect mark to write for a symbol it accepts
Expected(s) == IF s \in {"X", "x"} THEN "X" ELSE "O"

ValidSymbols == {"X", "O", "x", "o"}

\* C4: mark fails with InvalidSymbol when the upper-cased symbol is not X
\* or O, whatever the position; with InvalidMove when the symbol is valid
\* and the position is outside 0..8; both leave all nine cells unchanged;
\* a valid symbol in either case and a position in 0..8 succeed and the
\* cell holds the upper-cased symbol.
C4_MarkErrors ==
    op = "mark" =>
        LET s == args[1]
            pos == args[2]
        IN /\ s \notin ValidSymbols =>
                 (err = "InvalidSymbol" /\ board = start)
           /\ (s \in ValidSymbols /\ pos \notin 0..8) =>
                 (err = "InvalidMove" /\ board = start)
           /\ (s \in ValidSymbols /\ pos \in 0..8) =>
                 (err = "ok" /\ board[pos + 1] = Expected(s))

\* mark has rejected a call on a board with marks on it
C4_Witness ==
    /\ op = "mark"
    /\ args = <<"z", 0>>
    /\ err = "InvalidSymbol"
    /\ start[1] = PLAYER

\* the reference status: Win if some WinLine holds three identical
\* symbols, else Draw if no cell is empty, else Active
RefStatus(b) ==
    IF HasLine(b, PLAYER) \/ HasLine(b, OPPONENT_PLAYER) THEN "WIN"
    ELSE IF Full(b) THEN "DRAW"
    ELSE "ACTIVE"

\* C5: on every one of the 3^9 boards status equals the reference
\* definition; a full board without a completed WinLine is a Draw.
C5_StatusReference ==
    /\ status(board) = RefStatus(board)
    /\ (Full(board) /\ ~HasLine(board, PLAYER)
          /\ ~HasLine(board, OPPONENT_PLAYER)) => status(board) = "DRAW"

\* a constructed board that is full and has no completed WinLine
C5_Witness ==
    /\ op = "init"
    /\ Full(board)
    /\ ~HasLine(board, PLAYER)
    /\ ~HasLine(board, OPPONENT_PLAYER)

\* C6: status is one of Active, Win, Draw; Win implies a winner X or O,
\* Draw and Active imply no winner, and is_over is status # Active.
C6_AccessorsAgree ==
    /\ status(board) \in {"ACTIVE", "WIN", "DRAW"}
    /\ status(board) = "WIN" =>
          winner(board) \in {PLAYER, OPPONENT_PLAYER}
    /\ status(board) = "DRAW" => winner(board) = None
    /\ status(board) = "ACTIVE" => winner(board) = None
    /\ is_over(board) <=> status(board) # "ACTIVE"

\* a constructed board that O has won
C6_Witness ==
    /\ op = "init"
    /\ status(board) = "WIN"
    /\ winner(board) = OPPONENT_PLAYER

AtMostOneLine(b) == ~(HasLine(b, PLAYER) /\ HasLine(b, OPPONENT_PLAYER))

\* C7 as stated: no board produced from the empty board by alternating
\* marks of X and O on empty cells has a WinLine of X and one of O.
C7_Original == AtMostOneLine(board)

\* C7 amended: the same when no mark is placed once the board is over,
\* that is, a mark placed on a board that is not over never produces a
\* board with a WinLine of X and a WinLine of O.
C7_OneLineWhilePlaying ==
    [][~is_over(board) => AtMostOneLine(board')]_vars

\* the fifth mark of a game has completed a WinLine
C7_Witness ==
    /\ op = "mark"
    /\ empties(board) = 4
    /\ HasLine(board, PLAYER)
    /\ ~HasLine(board, OPPONENT_PLAYER)

Board8 == <<"O", "O", None, "X", None, None, None, None, None>>

\* C8: on [O,O,-,X,-,-,-,-,-] do_move marks position 2, and the status
\* is Active afterwards.
C8_BlocksRow ==
    (op = "do_move" /\ start = Board8) =>
        /\ board = [Board8 EXCEPT ![2 + 1] = PLAYER]
        /\ status(board) = "ACTIVE"

C8_Witness == op = "do_move" /\ start = Board8 /\ board[2 + 1] = PLAYER

Board9 == <<"X", "X", None, None, None, None, None, None, None>>

\* C9: on [X,X,-,-,-,-,-,-,-] do_move marks position 2, after which the
\* status is Win and the winner is X.
C9_CompletesRow ==
    (op = "do_move" /\ start = Board9) =>
        /\ board = [Board9 EXCEPT ![2 + 1] = PLAYER]
        /\ status(board) = "WIN"
        /\ winner(board) = PLAYER

C9_Witness == op = "do_move" /\ start = Board9 /\ winner(board) = PLAYER

\* C10: mark with a valid symbol on an occupied cell at a position in
\* 0..8 succeeds, the cell then holds the new symbol and the other eight
\* cells are unchanged, also when the board is over.
C10_MarkOverwrites ==
    (/\ op = "mark"
     /\ args[1] \in ValidSymbols
     /\ args[2] \in 0..8
     /\ start[args[2] + 1] # None) =>
        /\ err = "ok"
        /\ board[args[2] + 1] = Expected(args[1])
        /\ \A q \in Positions \ {args[2]} : board[q + 1] = start[q + 1]

\* a mark has replaced the other symbol on a board that was over
C10_Witness ==
    /\ op = "mark"
    /\ err = "ok"
    /\ is_over(start)
    /\ start[args[2] + 1] = OPPONENT_PLAYER
    /\ board[args[2] + 1] = PLAYER

\* C11: on a board that is over do_move does nothing: it returns without
\* raising, and the nine cells, the status and the winner are as before.
C11_DoMoveNoOpWhenOver ==
    (op = "do_move" /\ is_over(start)) =>
        /\ err = "ok"
        /\ board = start
        /\ status(board) = status(start)
        /\ winner(board) = winner(start)

\* do_move has been called on a drawn board
C11_Witness ==
    /\ op = "do_move"
    /\ status(start) = "DRAW"
    /\ Full(start)

\* C12: on the empty board do_move puts X on position 0 and leaves cells
\* 1..8 empty.
C12_OpensAtZero ==
    (op = "do_move" /\ start = EmptyBoard) =>
        /\ board[0 + 1] = PLAYER
        /\ \A p \in 1..8 : board[p + 1] = None

C12_Witness == op = "do_move" /\ start = EmptyBoard /\ empties(board) = 8

\* C13: on every board, for every position p holding a symbol s,
\* undo_mark(p) followed at once by mark(s, p) restores all nine cells to
\* what they were before the undo_mark.
C13_UndoThenMarkRestores ==
    (op = "undo_mark,mark" /\ start[args[2] + 1] = args[1]) =>
        /\ err = "ok"
        /\ board = start

\* position 4 of a board with other marks held O, was cleared and re-marked
C13_Witness ==
    /\ op = "undo_mark,mark"
    /\ args = <<OPPONENT_PLAYER, 4>>
    /\ start[4 + 1] = OPPONENT_PLAYER
    /\ start[5 + 1] = PLAYER
    /\ board[4 + 1] = OPPONENT_PLAYER

\* the score the search gives to active_turn's mark on position p of board b
move_score(b, active_turn, p) ==
    mini_max(mark(b, active_turn, p).board, next_active_turn(active_turn)).score

\* the empty positions of b whose score is the best one for active_turn
best_positions(b, active_turn) ==
    LET E == {p \in Positions : b[p + 1] = None}
    IN {p \in E : \A q \in E :
            IF active_turn = symbol
            THEN move_score(b, active_turn, p) >= move_score(b, active_turn, q)
            ELSE move_score(b, active_turn, p) <= move_score(b, active_turn, q)}

lowest(S) == CHOOSE p \in S : \A q \in S : p <= q

\* C14: on a board that is not over and has a filled cell, do_move marks
\* the lowest empty position among those of maximal minimax score; at a
\* minimizing node the search returns the lowest empty position among
\* those of minimal score.
C14_LowestBestMove ==
    (op = "do_move" /\ ~is_over(start) /\ start # EmptyBoard) =>
        /\ err = "ok"
        /\ board = mark(start, symbol,
                        lowest(best_positions(start, symbol))).board
        /\ mini_max(start, OPPONENT_PLAYER).move =
               lowest(best_positions(start, OPPONENT_PLAYER))

\* do_move chose position 1 although position 3 scores as well
C14_Witness ==
    /\ op = "do_move"
    /\ start = <<OPPONENT_PLAYER, None, None, None, PLAYER,
                 None, None, None, None>>
    /\ {1, 3} \subseteq best_positions(start, symbol)
    /\ board[1 + 1] = PLAYER

\* C15: the search on the empty board with X as the active turn returns
\* move 0 with score 0, so the move do_move plays there without searching
\* is the move the search would have given.
C15_ShortcutIsSearchMove ==
    (op = "do_move" /\ start = EmptyBoard) =>
        LET r == mini_max(start, symbol)
        IN /\ r.move = 0
           /\ r.score = 0
           /\ board = mark(r.board, symbol, r.move).board

\* the opening move has been played and the search agrees with it
C15_Witness ==
    /\ op = "do_move"
    /\ start = EmptyBoard
    /\ board[mini_max(EmptyBoard, symbol).move + 1] = PLAYER

\* C16: the search uses the board as scratch only: for every board and
\* either active turn a call of _mini_max, at whatever depth, leaves the
\* nine cells as it found them, and every tentative mark of the call is put
\* on an empty cell, the one before it having been undone.
C16_SearchRestoresBoard ==
    op = "do_move" =>
        \A active_turn \in {PLAYER, OPPONENT_PLAYER} :
            /\ mini_max(start, active_turn).board = start
            /\ mini_max(start, active_turn).fresh

\* a search that tried at least three positions has returned
C16_Witness ==
    /\ op = "do_move"
    /\ ~is_over(start)
    /\ empties(start) = 3
    /\ mini_max(start, symbol).move # NoMove
    /\ mini_max(start, symbol).board = start

\* the empty positions of b on which a mark of s completes a WinLine
completing(b, s) ==
    {p \in Positions : b[p + 1] = None /\ HasLine(mark(b, s, p).board, s)}

\* C17 as stated: on every board that is not over and has an empty cell
\* completing a WinLine for X, do_move marks such a cell, and right after
\* the call the status is WIN and the winner X.
C17_Original ==
    (op = "do_move" /\ ~is_over(start) /\ completing(start, symbol) # {}) =>
        /\ \E p \in completing(start, symbol) :
               board = mark(start, symbol, p).board
        /\ status(board) = "WIN"
        /\ winner(board) = PLAYER

\* C17 amended: on such a board do_move marks the lowest empty position
\* scored +1 by the search. That mark either completes a WinLine for X, and
\* the status is WIN with winner X, or leaves an active board that the
\* search, O to move, still scores +1. It completes a line whenever that
\* lowest position is one of the completing cells.
C17_KeepsWin ==
    (op = "do_move" /\ ~is_over(start) /\ completing(start, symbol) # {}) =>
        LET p == lowest(best_positions(start, symbol))
        IN /\ err = "ok"
           /\ move_score(start, symbol, p) = 1
           /\ board = mark(start, symbol, p).board
           /\ \/ status(board) = "WIN" /\ winner(board) = PLAYER
              \/ /\ status(board) = "ACTIVE"
                 /\ mini_max(board, OPPONENT_PLAYER).score = 1
           /\ p \in completing(start, symbol) =>
                 status(board) = "WIN" /\ winner(board) = PLAYER

\* X could complete the bottom row on 6, and do_move marked 0 instead
C17_Witness ==
    /\ op = "do_move"
    /\ start = <<None, None, None, None, None, None, None, PLAYER, PLAYER>>
    /\ 6 \in completing(start, symbol)
    /\ board[0 + 1] = PLAYER
    /\ status(board) = "ACTIVE"

\* C18: every call of do_move terminates: on a board with k empty cells
\* the calls of _mini_max never nest deeper than k levels below the first,
\* each recursive call being made on a board with exactly one more filled
\* cell and no call looping on a finished game.
C18_Nesting ==
    op = "_mini_max" =>
        /\ Len(frames) >= 1
        /\ Len(frames) <= empties(start) + 1
        /\ empties(board) = empties(start) - (Len(frames) - 1)
        /\ is_over(board) => frames[Len(frames)].moves = <<>>

\* what is left to do: the stage of do_move, then for each call in
\* progress, the outermost first, twice the moves it has left, less one
\* when the first of them is being tried
stage == IF op = "init" THEN 2 ELSE IF op = "_mini_max" THEN 1 ELSE 0

work ==
    [d \in 1..Len(frames) |->
        2 * Len(frames[d].moves) - (IF d < Len(frames) THEN 1 ELSE 0)]

RECURSIVE lex_less(_, _, _)
lex_less(a, b, d) ==
    IF d > MaxDepth THEN FALSE
    ELSE LET x == IF d <= Len(a) THEN a[d] ELSE 0
             y == IF d <= Len(b) THEN b[d] ELSE 0
         IN x < y \/ (x = y /\ lex_less(a, b, d + 1))

\* every statement keeps the nesting within its bound and leaves less to
\* do, in an order without infinite descent
C18_DoMoveTerminates ==
    [][/\ C18_Nesting'
       /\ stage' < stage \/ (stage' = stage /\ lex_less(work', work, 1))]_vars

\* the search has nested as deep as the board has empty cells
C18_Witness ==
    /\ op = "_mini_max"
    /\ empties(start) = MaxEmpty
    /\ Len(frames) = empties(start) + 1
    /\ Full(board)

\* it is the computer's turn and some empty cell completes a WinLine for X
CanCompleteLine ==
    /\ turn = "computer"
    /\ ~is_over(board)
    /\ completing(board, symbol) # {}

\* C19: in a game from the empty board with strictly alternating turns,
\* played until the board is over, once the computer has the turn with an
\* empty cell that completes a WinLine for X, the game ends with status WIN
\* and winner X, also when do_move does not complete the line on that turn.
C19_WinsOnceItCan ==
    CanCompleteLine ~> (status(board) = "WIN" /\ winner(board) = PLAYER)

\* the computer can complete a line and do_move plays elsewhere
C19_Witness ==
    /\ CanCompleteLine
    /\ status(do_move(board).board) = "ACTIVE"

filled(b) == 9 - empties(b)

\* C20: in a game from the empty board with strictly alternating turns,
\* either side first, every turn taken while the board is not over raises
\* the number of filled cells by exactly one, and the board becomes over
\* after at most 9 marks.
C20_EachTurnFillsOne ==
    /\ [][~is_over(board) /\ filled(board') = filled(board) + 1]_vars
    /\ [](filled(board) = 9 => is_over(board))
    /\ <>is_over(board)

\* the computer, having begun, made the ninth mark and the game is over
C20_Witness ==
    /\ op = "do_move"
    /\ filled(board) = 9
    /\ is_over(board)

====
